---- MODULE Spec2Model ----
(***************************************************************************)
(* Model of the Growatt client library (growattServer) and of the register *)
(* range reader of examples/neo_800_example.py.                            *)
(*                                                                         *)
(* Two state machines share this module:                                   *)
(*   SpecReader  the register dump loop of neo_800_example.py, one action  *)
(*               per loop step, the server's answers chosen by \E;         *)
(*   SpecApi     clients of the library (GrowattApi, OpenApiV1 and the     *)
(*               Min/Sph device classes), one action per method call.      *)
(* Durations are in tenths of a second.  Texts are sequences of            *)
(* characters where the code looks inside them (startswith).               *)
(***************************************************************************)
EXTENDS Integers, Sequences, FiniteSets, TLC

None == "None"

Min2(a, b) == IF a < b THEN a ELSE b

Max2(a, b) == IF a > b THEN a ELSE b

(***************************************************************************)
(* Bounds of the model.                                                    *)
(***************************************************************************)
\* the server answers a read with an error other than '500' only while one
\* of the last ErrorRanges ranges of register_ranges is read
ErrorRanges == 2

(***************************************************************************)
(* neo_800_example.py: the register range reader.                          *)
(***************************************************************************)
register_ranges ==
    << <<0, 124>>, <<125, 179>>, <<180, 188>>, <<201, 203>>, <<209, 223>>,
       <<229, 229>>, <<230, 242>>, <<304, 345>>, <<532, 554>>, <<600, 612>>,
       <<660, 660>>, <<1000, 1038>>, <<1044, 1044>>, <<1047, 1048>>,
       <<1060, 1062>>, <<1070, 1071>>, <<1080, 1092>>, <<1100, 1121>>,
       <<1125, 1204>>, <<1244, 1249>>, <<3000, 3059>>, <<3070, 3071>>,
       <<3079, 3082>>, <<3085, 3114>>, <<3125, 3238>> >>

\* sleep(0.1) after a chunk was read
SleepAfterSuccess == 1

\* sleep(0.3) after the chunk size was reduced
SleepAfterReduce == 3

\* sleep(30) when the chunk size cannot be reduced
SleepAfterTimeout == 300

\* the floor of max(chunk_size // 2, 10)
MinChunkSize == 10

\* texts the server puts in 'msg', as sequences of characters
Msg500 == <<"5", "0", "0">>

Msg501 == <<"5", "0", "1">>

NoMsg == <<>>

\* str.startswith
StartsWith(s, prefix) ==
    /\ Len(s) >= Len(prefix)
    /\ SubSeq(s, 1, Len(prefix)) = prefix

\* the status login_v2 looks for in an HTTPError (blocked user agent)
StatusForbidden == 403

\* HTTP status codes of the server's responses
HttpStatuses == {200, StatusForbidden, 500}

\* Response.raise_for_status: client and server error statuses raise
IsErrorStatus(status) == status >= 400

\* a session without the response hook
HookRaisesNever(status) == FALSE

\* the session hook of GrowattApi.__init__: every response is passed to
\* raise_for_status, so a response with an error status never reaches the
\* method that sent the request
HookRaises(status) == IsErrorStatus(status)

\* The answers of newTcpsetAPI.do?action=readDeviceParam to the reader:
\* result is 1 on success; msg carries the error code.
ReaderAnswers ==
    { [status |-> 200, json |-> [result |-> 1, msg |-> NoMsg]],
      [status |-> 200, json |-> [result |-> 0, msg |-> Msg500]],
      [status |-> 200, json |-> [result |-> 0, msg |-> Msg501]],
      [status |-> 500, json |-> [result |-> 0, msg |-> NoMsg]] }

\* GrowattApi.read_inverter_registers, after the response arrived: the
\* server returns one value per requested register in obj.param1, and the
\* result keeps the register numbers start..end (zip with the range).
read_inverter_registers(register_address_start, register_address_end, response_json) ==
    LET success == response_json.result = 1
        msg == response_json.msg
        error_message ==
            IF msg = Msg501 THEN msg \o <<" inverter offline">>
            ELSE IF msg = Msg500
                 THEN IF register_address_end - register_address_start > 1
                      THEN msg \o <<" timeout or inverter offline",
                                    " - try querying less registers at once">>
                      ELSE msg \o <<" timeout or inverter offline">>
                 ELSE msg
    IN  [ register |-> IF success
                       THEN register_address_start .. register_address_end
                       ELSE {},
          success |-> success,
          error_message |-> error_message ]

\* new_chunk_size = max(chunk_size // 2, 10)
NewChunkSizeHalf(cs) == cs \div 2

NewChunkSize(cs) == Max2(cs \div 2, MinChunkSize)

\* the sleep of the '500' branch: 30 s if the chunk size did not change
TimeoutSleepShort(cs, new_cs) == SleepAfterReduce

TimeoutSleep(cs, new_cs) ==
    IF new_cs = cs THEN SleepAfterTimeout ELSE SleepAfterReduce

VARIABLES
    rpc,                 \* position of the script: "for", "while", "finished", "crashed"
    range_idx,           \* index of the current range in register_ranges
    register_start,
    register_end,
    chunk_size,
    query_start,
    register_result,     \* the register numbers that have a value
    register_read_error, \* None, or the error message of the last break
    last_read,           \* the last read request, its answer and the sleep after it
    client,              \* per instance: class, source module, agent_identifier
    session,             \* per instance: the requests.Session it created
    class_agent_identifier, \* the class attribute GrowattApi.agent_identifier
    call                 \* the last method call: arguments, requests sent, outcome

readerVars == <<rpc, range_idx, register_start, register_end, chunk_size,
                query_start, register_result, register_read_error,
                last_read>>

apiVars == <<client, session, class_agent_identifier, call>>

vars == <<readerVars, apiVars>>

\* register_read_error = None before the first break (the message of a
\* break is never empty)
NoReadError == <<>>

\* odd: whether the number of read requests sent so far is odd (the number
\* itself has no bound)
NoRead == [start |-> -1, end |-> -1, chunk |-> 0, range |-> 0, odd |-> FALSE,
           answer |-> "none", sleep |-> 0]

ReaderInit ==
    /\ rpc = "for"
    /\ range_idx = 0
    /\ register_start = 0
    /\ register_end = 0
    /\ chunk_size = 0
    /\ query_start = 0
    /\ register_result = {}
    /\ register_read_error = NoReadError
    /\ last_read = NoRead

\* for register_start, register_end in register_ranges: the next range
ForNext ==
    /\ rpc = "for"
    /\ range_idx < Len(register_ranges)
    /\ range_idx' = range_idx + 1
    /\ register_start' = register_ranges[range_idx + 1][1]
    /\ register_end' = register_ranges[range_idx + 1][2]
    /\ chunk_size' = register_ranges[range_idx + 1][2] - register_ranges[range_idx + 1][1] + 1
    /\ query_start' = register_ranges[range_idx + 1][1]
    /\ rpc' = "while"
    /\ UNCHANGED <<register_result, register_read_error, last_read>>
    /\ UNCHANGED apiVars

\* the for loop is exhausted: print "finished reading registers"
ForDone ==
    /\ rpc = "for"
    /\ range_idx = Len(register_ranges)
    /\ rpc' = "finished"
    /\ UNCHANGED <<range_idx, register_start, register_end, chunk_size,
                   query_start, register_result, register_read_error,
                   last_read>>
    /\ UNCHANGED apiVars

\* while query_start < register_end: false, the range is left
WhileExit ==
    /\ rpc = "while"
    /\ ~(query_start < register_end)
    /\ rpc' = "for"
    /\ UNCHANGED <<range_idx, register_start, register_end, chunk_size,
                   query_start, register_result, register_read_error,
                   last_read>>
    /\ UNCHANGED apiVars

\* one iteration of the while loop: the request, the branch on its answer
\* and the sleep of that branch
WhileIter ==
    /\ rpc = "while"
    /\ query_start < register_end
    /\ \E response \in ReaderAnswers :
        LET query_end == Min2(query_start + chunk_size, register_end)
            registers_dict == read_inverter_registers(query_start, query_end, response.json)
            is500 == StartsWith(registers_dict.error_message, Msg500)
            new_chunk_size == NewChunkSize(chunk_size)
            read == [start |-> query_start, end |-> query_end,
                     chunk |-> chunk_size, range |-> range_idx,
                     odd |-> ~last_read.odd]
        IN
        /\ IF HookRaises(response.status)
           THEN \* HTTPError leaves the script
                /\ rpc' = "crashed"
                /\ last_read' = read @@ [answer |-> "http_error", sleep |-> 0]
                /\ UNCHANGED <<chunk_size, query_start, register_result,
                               register_read_error>>
           ELSE IF registers_dict.success
           THEN /\ register_result' = register_result \cup registers_dict.register
                /\ query_start' = query_end
                /\ last_read' = read @@ [answer |-> "success",
                                         sleep |-> SleepAfterSuccess]
                /\ UNCHANGED <<rpc, chunk_size, register_read_error>>
           ELSE IF is500
           THEN /\ chunk_size' = IF new_chunk_size = chunk_size
                                 THEN chunk_size ELSE new_chunk_size
                /\ last_read' = read @@
                       [answer |-> "500",
                        sleep |-> TimeoutSleep(chunk_size, new_chunk_size)]
                /\ UNCHANGED <<rpc, query_start, register_result,
                               register_read_error>>
           ELSE \* break
                /\ range_idx > Len(register_ranges) - ErrorRanges
                /\ register_read_error' =
                       <<"failed to read registers: '">>
                       \o registers_dict.error_message \o <<"'">>
                /\ rpc' = "for"
                /\ last_read' = read @@ [answer |-> "error", sleep |-> 0]
                /\ UNCHANGED <<chunk_size, query_start, register_result>>
    /\ UNCHANGED <<range_idx, register_start, register_end>>
    /\ UNCHANGED apiVars

(***************************************************************************)
(* The client library: values.                                             *)
(***************************************************************************)
\* the client objects of the model
Instances == {"api1", "api2"}

\* JSON and Python values, tagged with their type: t is "int", "str",
\* "bool", "none" (None, null), "dict", or "absent" for a key that the
\* dict does not have
JInt(n) == [t |-> "int", n |-> n, s |-> ""]

JStr(str) == [t |-> "str", n |-> 0, s |-> str]

JBool(b) == [t |-> "bool", n |-> IF b THEN 1 ELSE 0, s |-> ""]

JDict(name) == [t |-> "dict", n |-> 0, s |-> name]

JList(len) == [t |-> "list", n |-> len, s |-> ""]

JNone == [t |-> "none", n |-> 0, s |-> ""]

Absent == [t |-> "absent", n |-> 0, s |-> ""]

\* dict.get(key, default)
Get(d, key, default) == IF d[key] = Absent THEN default ELSE d[key]

\* Python's ==: a bool is the int 0 or 1, other types differ
PyEq(a, b) ==
    IF a.t \in {"int", "bool"} /\ b.t \in {"int", "bool"}
    THEN a.n = b.n
    ELSE a = b

\* Python's truth value
Truthy(a) ==
    CASE a.t \in {"int", "bool"} -> a.n # 0
      [] a.t = "str" -> a.s # ""
      [] a.t = "dict" -> a.s # "{}"
      [] a.t = "list" -> a.n # 0
      [] OTHER -> FALSE

\* GrowattApi.agent_identifier, the class attribute
DefaultAgent == <<"Dalvik/2.1.0 (Linux; U; Android 12; https://github.com/indykoning/PyPi_GrowattServer)">>

\* OpenApiV1._create_user_agent: built from the platform
V1Agent == <<"Python/", "python_version", " (", "system", " ", "release", "; ", "machine", ")">>

\* agent_identifier arguments of the constructor
AgentArgs == {None, "my-user-agent"}

\* the numbers randint(0, 99999) returns in the model
RandomIds == {42, 99999}

\* f"{n:05d}"
Format05d(n) ==
    << (n \div 10000) % 10, (n \div 1000) % 10, (n \div 100) % 10,
       (n \div 10) % 10, n % 10 >>

\* token arguments of OpenApiV1
Tokens == {"token1"}

\* requests.Session(): the default headers
DefaultHeaders == [UserAgent |-> <<"python-requests">>, token |-> None]

NoClient == [cls |-> "none", module |-> "none", agent_identifier |-> <<>>,
             add_random_user_id |-> FALSE, agent_arg |-> <<>>]

NoSession == [exists |-> FALSE, headers |-> DefaultHeaders, hook |-> FALSE]

\* outcomes of a call: a returned value or a raised exception
Return(v) ==
    [kind |-> "return", exc |-> "", value |-> v,
     error_code |-> Absent, error_msg |-> Absent, status |-> 0, extended |-> FALSE]

Raise(e) ==
    [kind |-> "raise", exc |-> e, value |-> Absent,
     error_code |-> Absent, error_msg |-> Absent, status |-> 0, extended |-> FALSE]

\* GrowattV1ApiError(message, error_code, error_msg)
GrowattV1ApiError(code, msg) ==
    [Raise("GrowattV1ApiError") EXCEPT !.error_code = code, !.error_msg = msg]

\* requests.exceptions.HTTPError raised by raise_for_status for a response
\* with the given status; extended: login_v2 appended its hint to the message
HTTPError(status, extended) ==
    [Raise("HTTPError") EXCEPT !.status = status, !.extended = extended]

NoCall == [client |-> "none", cls |-> "none", module |-> "none",
           method |-> <<"none", "", "none">>, args |-> <<>>, sent |-> <<>>,
           warnings |-> <<>>, outcome |-> Return(Absent)]

(***************************************************************************)
(* The session and the requests sent through it.                           *)
(***************************************************************************)
\* a request sent with requests.get / requests.post instead: a fresh
\* session with the default headers
SendOtherSession(i, sess, verb, endpoint, response) ==
    [session |-> "fresh", headers |-> DefaultHeaders, verb |-> verb,
     endpoint |-> endpoint, response |-> response]

\* self.session.get / self.session.post on a given session object: the
\* request carries the session's headers; the response comes back through
\* the session's response hook
Send(i, sess, verb, endpoint, response) ==
    [session |-> i, headers |-> sess.headers, verb |-> verb,
     endpoint |-> endpoint, response |-> response]

\* what the session gives back to the caller of get/post: the hook raises
\* HTTPError for an error status
Received(sess, response) ==
    IF sess.hook /\ HookRaises(response.status)
    THEN HTTPError(response.status, FALSE)
    ELSE Return(response.json)

\* a body that sends its request again when the first response raised
OneRequestRetried(i, sess, verb, endpoint, response, result) ==
    LET got == Received(sess, response)
        request == Send(i, sess, verb, endpoint, response)
    IN  [ sent |-> IF got.kind = "raise" THEN <<request, request>> ELSE <<request>>,
          outcome |-> IF got.kind = "raise" THEN got ELSE result ]

\* A method body that sends one request and computes its result from the
\* JSON of the response: [sent, outcome]
OneRequest(i, sess, verb, endpoint, response, result) ==
    LET got == Received(sess, response)
    IN  [ sent |-> << Send(i, sess, verb, endpoint, response) >>,
          outcome |-> IF got.kind = "raise" THEN got ELSE result ]

\* A method body that raises before it sends anything
NoRequest(outcome) == [sent |-> <<>>, outcome |-> outcome]

(***************************************************************************)
(* Constructors.                                                           *)
(***************************************************************************)
\* a constructor that appended to GrowattApi.agent_identifier, the class
\* attribute, instead of to the attribute of the instance
GrowattApi_initClassWrite(i, module, add_random_user_id, agent_identifier, random_id) ==
    LET agent0 == IF agent_identifier # None
                  THEN <<agent_identifier>> ELSE class_agent_identifier
        agent == IF add_random_user_id
                 THEN agent0 \o <<" - ">> \o Format05d(random_id)
                 ELSE agent0
    IN  /\ client' = [client EXCEPT ![i] =
              [cls |-> "GrowattApi", module |-> module, agent_identifier |-> agent,
               add_random_user_id |-> add_random_user_id,
               agent_arg |-> IF agent_identifier # None
                             THEN <<agent_identifier>> ELSE <<>>]]
        /\ session' = [session EXCEPT ![i] =
              [exists |-> TRUE,
               headers |-> [DefaultHeaders EXCEPT !.UserAgent = agent],
               hook |-> TRUE]]
        /\ class_agent_identifier' = agent

\* GrowattApi.__init__ (__init__.py and base_api.py): the instance attribute
\* self.agent_identifier is assigned, the class attribute is only read
GrowattApi_init(i, module, add_random_user_id, agent_identifier, random_id) ==
    LET agent0 == IF agent_identifier # None
                  THEN <<agent_identifier>> ELSE class_agent_identifier
        agent == IF add_random_user_id
                 THEN agent0 \o <<" - ">> \o Format05d(random_id)
                 ELSE agent0
    IN  /\ client' = [client EXCEPT ![i] =
              [cls |-> "GrowattApi", module |-> module, agent_identifier |-> agent,
               add_random_user_id |-> add_random_user_id,
               agent_arg |-> IF agent_identifier # None
                             THEN <<agent_identifier>> ELSE <<>>]]
        /\ session' = [session EXCEPT ![i] =
              [exists |-> TRUE,
               headers |-> [DefaultHeaders EXCEPT !.UserAgent = agent],
               hook |-> TRUE]]
        /\ class_agent_identifier' = class_agent_identifier

\* OpenApiV1.__init__ (open_api_v1.py and open_api_v1/__init__.py):
\* super().__init__(agent_identifier=self._create_user_agent())
OpenApiV1_init(i, module, token) ==
    /\ client' = [client EXCEPT ![i] =
          [cls |-> "OpenApiV1", module |-> module, agent_identifier |-> V1Agent,
           add_random_user_id |-> FALSE, agent_arg |-> V1Agent]]
    /\ session' = [session EXCEPT ![i] =
          [exists |-> TRUE,
           headers |-> [UserAgent |-> V1Agent, token |-> token],
           hook |-> TRUE]]
    /\ class_agent_identifier' = class_agent_identifier

NewGrowattApi ==
    \E i \in Instances, module \in {"__init__", "base_api"},
       add_random_user_id \in BOOLEAN, agent_identifier \in AgentArgs,
       random_id \in RandomIds :
        /\ client[i] = NoClient
        /\ add_random_user_id \/ random_id = 42
        /\ GrowattApi_init(i, module, add_random_user_id, agent_identifier, random_id)
        /\ call = NoCall
        /\ UNCHANGED <<call, readerVars>>

NewOpenApiV1 ==
    \E i \in Instances, module \in {"open_api_v1.py", "open_api_v1/"},
       token \in Tokens :
        /\ client[i] = NoClient
        /\ OpenApiV1_init(i, module, token)
        /\ call = NoCall
        /\ UNCHANGED <<call, readerVars>>

\* a method call of instance i: the call record
Called(i, method, args, result) ==
    [client |-> i, cls |-> client[i].cls, module |-> client[i].module,
     method |-> method, args |-> args, sent |-> result.sent,
     warnings |-> IF "warnings" \in DOMAIN result THEN result.warnings ELSE <<>>,
     outcome |-> result.outcome]

ApiInit ==
    /\ client = [i \in Instances |-> NoClient]
    /\ session = [i \in Instances |-> NoSession]
    /\ class_agent_identifier = DefaultAgent
    /\ call = NoCall

(***************************************************************************)
(* GrowattApi: methods of the classic API.                                 *)
(***************************************************************************)
\* the responses of the classic endpoints: the fields the methods read
ClassicResponses ==
    { [status |-> st, json |-> [success |-> su, deviceList |-> dl]] :
        st \in {200}, su \in {JBool(TRUE), JBool(FALSE), Absent},
        dl \in {JList(1), JList(0), Absent} }
    \cup
    { [status |-> st, json |-> [success |-> Absent, deviceList |-> Absent]] :
        st \in {s \in HttpStatuses : IsErrorStatus(s)} }

\* GrowattApi.login_v2 (growattServer/__init__.py)
login_v2(i, sess, response) ==
    LET got == Received(sess, response)
        data == response.json
    IN  [ sent |-> << Send(i, sess, "POST", "newTwoLoginAPI.do", response) >>,
          outcome |->
            IF got.kind = "raise"
            THEN \* except HTTPError as e: ...; raise e
                 IF got.exc = "HTTPError" /\ got.status = StatusForbidden
                 THEN HTTPError(got.status, TRUE)
                 ELSE got
            ELSE IF ~Truthy(Get(data, "success", JNone))
                 THEN Raise("Exception")
                 ELSE Return(JDict("back")) ]

\* GrowattApi.login (base_api.py)
login(i, sess, response) ==
    OneRequest(i, sess, "POST", "newTwoLoginAPI.do", response,
        IF response.json.success = Absent
        THEN Raise("KeyError")
        ELSE Return(JDict("back")))

\* GrowattApi.plant_info
plant_info(i, sess, response) ==
    OneRequest(i, sess, "GET", "newTwoPlantAPI.do?op=getAllDeviceListTwo",
               response, Return(response.json))

\* GrowattApi._get_all_devices
get_all_devices(i, sess, response) ==
    OneRequest(i, sess, "GET", "newTwoPlantAPI.do?op=getAllDeviceList",
               response, Return(Get(response.json, "deviceList", JDict("{}"))))

\* GrowattApi.device_list: plant_info, and _get_all_devices if that has no
\* devices
device_list(i, sess, response1, response2) ==
    LET info == plant_info(i, sess, response1)
        listed == Get(info.outcome.value, "deviceList", JList(0))
        all == get_all_devices(i, sess, response2)
    IN  IF info.outcome.kind = "raise" THEN info
        ELSE IF Truthy(listed) THEN [sent |-> info.sent, outcome |-> Return(listed)]
        ELSE [sent |-> info.sent \o all.sent, outcome |-> all.outcome]

\* GrowattApi.plant_settings
plant_settings(i, sess, response) ==
    OneRequest(i, sess, "GET", "newPlantAPI.do?op=getPlant", response,
               Return(JDict("settings")))

\* GrowattApi.update_plant_settings: fetches the current settings unless
\* they are passed, then posts the form
update_plant_settings(i, sess, current_settings, response1, response2) ==
    LET fetched == plant_settings(i, sess, response1)
        posted == OneRequest(i, sess, "POST", "newTwoPlantAPI.do?op=updatePlant",
                             response2, Return(JDict("json")))
    IN  IF current_settings # None THEN posted
        ELSE IF fetched.outcome.kind = "raise" THEN fetched
        ELSE [sent |-> fetched.sent \o posted.sent, outcome |-> posted.outcome]

\* GrowattApi.read_inverter_registers, the whole call
GrowattApi_read_inverter_registers(i, sess, start, end, response) ==
    LET register_address_end == IF end = JNone THEN start ELSE end.n
    IN  OneRequest(i, sess, "POST", "newTcpsetAPI.do?action=readDeviceParam",
            response,
            Return(read_inverter_registers(start, register_address_end,
                                           response.json)))

IsGrowattApi(i) == client[i].cls \in {"GrowattApi", "OpenApiV1"}

CallLogin ==
    /\ call = NoCall
    /\ \E i \in Instances, response \in ClassicResponses :
        /\ IsGrowattApi(i)
        /\ response.json.deviceList = Absent
        /\ call' = IF client[i].module = "base_api"
                   THEN Called(i, <<"api", "", "login">>, <<>>, login(i, session[i], response))
                   ELSE Called(i, <<"api", "", "login_v2">>, <<>>, login_v2(i, session[i], response))
        /\ UNCHANGED <<client, session, class_agent_identifier, readerVars>>

CallDeviceList ==
    /\ call = NoCall
    /\ \E i \in Instances, response1 \in ClassicResponses, response2 \in ClassicResponses :
        /\ client[i].cls = "GrowattApi" \* OpenApiV1 overrides device_list
        /\ response1.json.success = Absent
        /\ response2.json.success = Absent
        /\ call' = Called(i, <<"api", "", "device_list">>, <<>>,
                          device_list(i, session[i], response1, response2))
        /\ UNCHANGED <<client, session, class_agent_identifier, readerVars>>

CallUpdatePlantSettings ==
    /\ call = NoCall
    /\ \E i \in Instances, current_settings \in {None, "settings"},
       response1 \in ClassicResponses, response2 \in ClassicResponses :
        /\ IsGrowattApi(i)
        /\ response1.json = [success |-> Absent, deviceList |-> Absent]
        /\ response2.json = [success |-> Absent, deviceList |-> Absent]
        /\ call' = Called(i, <<"api", "", "update_plant_settings">>, <<current_settings>>,
                          update_plant_settings(i, session[i], current_settings,
                                                response1, response2))
        /\ UNCHANGED <<client, session, class_agent_identifier, readerVars>>

CallReadInverterRegisters ==
    /\ call = NoCall
    /\ \E i \in Instances, start \in {0, 5}, end \in {JNone, JInt(7)},
       response \in ReaderAnswers :
        /\ IsGrowattApi(i)
        /\ client[i].module = "__init__"
        /\ call' = Called(i, <<"api", "", "read_inverter_registers">>, <<start, end>>,
                          GrowattApi_read_inverter_registers(i, session[i], start, end, response))
        /\ UNCHANGED <<client, session, class_agent_identifier, readerVars>>

\* the caller has used the result of the call and goes on
ResultUsed ==
    /\ call # NoCall
    /\ call' = NoCall
    /\ UNCHANGED <<client, session, class_agent_identifier, readerVars>>

(***************************************************************************)
(* OpenApiV1 and the device classes Min and Sph.                           *)
(***************************************************************************)
\* the last day number of the dates passed to the history methods
MaxDay == 9

\* how far the arguments of min_write_time_segment go beyond the valid range
ArgSlack == 1

\* timedelta(days=7)
MaxHistoryDays == 7

\* segment_id must be between 1 and 9
max_min_segments == 9

\* batt_mode must be between 0 and 2
max_batt_mode == 2

\* the JSON bodies of the V1 API
V1Json ==
    { [error_code |-> c, error_msg |-> m, data |-> d] :
        c \in {JInt(0), JInt(1), JStr("0"), Absent},
        m \in {JStr("error"), Absent},
        d \in {JDict("data"), Absent} }

V1Responses ==
    { [status |-> 200, json |-> j] : j \in V1Json }
    \cup
    { [status |-> st,
       json |-> [error_code |-> Absent, error_msg |-> Absent, data |-> Absent]] :
        st \in {x \in HttpStatuses : IsErrorStatus(x)} }

\* a success, an API error and an HTTP error
V1ResponsesShort ==
    { r \in V1Responses :
        \/ r.status = 500
        \/ r.status = 200 /\ r.json \in
              { [error_code |-> JInt(0), error_msg |-> Absent, data |-> JDict("data")],
                [error_code |-> JInt(1), error_msg |-> JStr("error"), data |-> Absent] } }

\* a process_response that takes a missing error_code for success
process_response_default0(response) ==
    IF ~PyEq(Get(response, "error_code", JInt(0)), JInt(0))
    THEN GrowattV1ApiError(Get(response, "error_code", JNone),
                           Get(response, "error_msg", JStr("Unknown error")))
    ELSE Return(Get(response, "data", JNone))

\* OpenApiV1._process_response / OpenApiV1.process_response
process_response(response) ==
    IF ~PyEq(Get(response, "error_code", JInt(1)), JInt(0))
    THEN GrowattV1ApiError(Get(response, "error_code", JNone),
                           Get(response, "error_msg", JStr("Unknown error")))
    ELSE Return(Get(response, "data", JNone))

\* response = self.session.<verb>(...); return self.process_response(response.json(), ...)
V1Request(i, sess, verb, endpoint, response) ==
    OneRequest(i, sess, verb, endpoint, response, process_response(response.json))

\* AbstactDevice.__init__(self, api, device_sn), called with n arguments
DeviceInitFails(n) == n # 2

\* self.session of a device object: AbstactDevice sets only api and device_sn
DeviceHasSession == FALSE

\* the start and end date after the defaults were filled in
HistoryDates(start_date, end_date, today) ==
    IF start_date = JNone /\ end_date = JNone THEN <<today, today>>
    ELSE IF start_date = JNone THEN <<end_date.n, end_date.n>>
    ELSE IF end_date = JNone THEN <<start_date.n, start_date.n>>
    ELSE <<start_date.n, end_date.n>>

\* end_date - start_date > timedelta(days=7)
IntervalInvalid(dates) == dates[2] - dates[1] > MaxHistoryDays

\* OpenApiV1.min_energy_history, OpenApiV1.sph_energy_history (open_api_v1.py)
energy_history(i, sess, endpoint, start_date, end_date, today, response) ==
    IF IntervalInvalid(HistoryDates(start_date, end_date, today))
    THEN NoRequest(Raise("GrowattParameterError"))
    ELSE V1Request(i, sess, "POST", endpoint, response)

\* Min.energy_history (devices/min.py)
Min_energy_history(i, sess, start_date, end_date, today, response) ==
    IF IntervalInvalid(HistoryDates(start_date, end_date, today))
    THEN NoRequest(Raise("GrowattParameterError"))
    ELSE V1Request(i, sess, "POST", "device/tlx/tlx_data", response)

\* Sph.energy_history (devices/sph.py): datetime.now(datetime.UTC) fails
\* on the class datetime, and the request goes to self.session
Sph_energy_history(i, sess, start_date, end_date, today, response) ==
    IF start_date = JNone /\ end_date = JNone
    THEN NoRequest(Raise("AttributeError"))
    ELSE IF IntervalInvalid(HistoryDates(start_date, end_date, today))
    THEN NoRequest(Raise("GrowattParameterError"))
    ELSE IF ~DeviceHasSession
    THEN NoRequest(Raise("AttributeError"))
    ELSE V1Request(i, sess, "POST", "device/mix/mix_data", response)

\* the validation of parameter_id and start_address:
\* AbstactDevice.validate_read_parameter_input and the same checks in
\* min_read_parameter, sph_read_parameter and Sph.read_parameter
ReadParameterInvalid(parameter_id, start_address) ==
    \/ parameter_id = JNone /\ start_address = JNone
    \/ parameter_id # JNone /\ start_address # JNone

\* OpenApiV1.min_read_parameter, OpenApiV1.sph_read_parameter (open_api_v1.py)
\* and Min.read_parameter (devices/min.py)
read_parameter(i, sess, endpoint, parameter_id, start_address, response) ==
    IF ReadParameterInvalid(parameter_id, start_address)
    THEN NoRequest(Raise("GrowattParameterError"))
    ELSE V1Request(i, sess, "POST", endpoint, response)

\* Sph.read_parameter (devices/sph.py)
Sph_read_parameter(i, sess, parameter_id, start_address, response) ==
    IF ReadParameterInvalid(parameter_id, start_address)
    THEN NoRequest(Raise("GrowattParameterError"))
    ELSE IF ~DeviceHasSession
    THEN NoRequest(Raise("AttributeError"))
    ELSE V1Request(i, sess, "POST", "readMixParam", response)

\* a check of segment_id alone
TimeSegmentInvalidSegmentOnly(segment_id, batt_mode) ==
    ~(1 <= segment_id /\ segment_id <= max_min_segments)

\* the checks of segment_id and batt_mode
TimeSegmentInvalid(segment_id, batt_mode) ==
    \/ ~(1 <= segment_id /\ segment_id <= max_min_segments)
    \/ ~(0 <= batt_mode /\ batt_mode <= max_batt_mode)

\* OpenApiV1.min_write_time_segment (open_api_v1.py) and
\* Min.write_time_segment (devices/min.py)
write_time_segment(i, sess, segment_id, batt_mode, response) ==
    IF TimeSegmentInvalid(segment_id, batt_mode)
    THEN NoRequest(Raise("GrowattParameterError"))
    ELSE V1Request(i, sess, "POST", "tlxSet", response)

\* OpenApiV1.min_settings (open_api_v1.py) and Min.settings (devices/min.py)
min_settings(i, sess, response) ==
    V1Request(i, sess, "GET", "device/tlx/tlx_set_info", response)

\* OpenApiV1.sph_detail (open_api_v1.py)
sph_detail(i, sess, response) ==
    V1Request(i, sess, "GET", "device/mix/mix_data_info", response)

\* Sph.detail (devices/sph.py)
Sph_detail(i, sess, response) ==
    IF ~DeviceHasSession
    THEN NoRequest(Raise("AttributeError"))
    ELSE V1Request(i, sess, "GET", "device/mix/mix_data_info", response)

(***************************************************************************)
(* The time segments of a MIN inverter: parsing the settings.              *)
(***************************************************************************)
\* the values of the fields of a settings dict: a missing key, None, a
\* text (a sequence of characters) or an int
FAbsent == [t |-> "absent", n |-> 0, chars |-> <<>>]

FNone == [t |-> "none", n |-> 0, chars |-> <<>>]

FStr(chars) == [t |-> "str", n |-> 0, chars |-> chars]

FInt(n) == [t |-> "int", n |-> n, chars |-> <<>>]

\* the text 'null'
NullText == <<"n", "u", "l", "l">>

\* the default "0:0" of a time field
ZeroTime == <<"0", ":", "0">>

\* the time "00:00" of a field that cannot be parsed
MidnightText == <<"0", "0", ":", "0", "0">>

\* the decimal digits and their values
DigitValue(c) ==
    CASE c = "0" -> 0 [] c = "1" -> 1 [] c = "2" -> 2 [] c = "3" -> 3
      [] c = "4" -> 4 [] c = "5" -> 5 [] c = "6" -> 6 [] c = "7" -> 7
      [] c = "8" -> 8 [] c = "9" -> 9

IsDigit(c) == c \in {"0", "1", "2", "3", "4", "5", "6", "7", "8", "9"}

DigitChar(d) == <<"0", "1", "2", "3", "4", "5", "6", "7", "8", "9">>[d + 1]

\* str.split(sep): the parts of a text between the separators
RECURSIVE Split(_, _)
Split(text, sep) ==
    IF \A k \in 1 .. Len(text) : text[k] # sep
    THEN <<text>>
    ELSE LET at == CHOOSE k \in 1 .. Len(text) :
                       text[k] = sep /\ \A j \in 1 .. (k - 1) : text[j] # sep
         IN  <<SubSeq(text, 1, at - 1)>>
             \o Split(SubSeq(text, at + 1, Len(text)), sep)

\* the value of a text of digits
RECURSIVE DigitsValue(_)
DigitsValue(digits) ==
    IF digits = <<>> THEN 0
    ELSE 10 * DigitsValue(SubSeq(digits, 1, Len(digits) - 1))
         + DigitValue(digits[Len(digits)])

\* str.strip(): without the blanks at both ends
RECURSIVE Strip(_)
Strip(text) ==
    IF text # <<>> /\ text[1] = " " THEN Strip(Tail(text))
    ELSE IF text # <<>> /\ text[Len(text)] = " "
    THEN Strip(SubSeq(text, 1, Len(text) - 1))
    ELSE text

\* int(text): blanks around, an optional sign, then digits; ok is FALSE
\* where Python raises ValueError
IntOfText(text) ==
    LET s == Strip(text)
        signed == s # <<>> /\ s[1] \in {"-", "+"}
        digits == IF signed THEN Tail(s) ELSE s
        ok == digits # <<>> /\ \A k \in 1 .. Len(digits) : IsDigit(digits[k])
    IN  [ok |-> ok,
         n |-> IF ~ok THEN 0
               ELSE IF signed /\ s[1] = "-" THEN 0 - DigitsValue(digits)
               ELSE DigitsValue(digits)]

\* the decimal text of a natural number
RECURSIVE NatText(_)
NatText(n) ==
    IF n < 10 THEN <<DigitChar(n)>>
    ELSE NatText(n \div 10) \o <<DigitChar(n % 10)>>

\* f"{n:02d}": at least two characters, the sign included, filled with zeros
Format02d(n) ==
    LET text == IF n < 0 THEN <<"-">> \o NatText(0 - n) ELSE NatText(n)
    IN  IF Len(text) >= 2 THEN text ELSE <<"0">> \o text

\* the stop of range(1, 10), the loop over the segments
SegmentsStop == 10

\* range(1, stop) without its last number
RangeShort(stop) == [k \in 1 .. (stop - 2) |-> k]

\* range(1, stop)
Range(stop) == [k \in 1 .. (stop - 1) |-> k]

\* the keys f"forcedTimeStart{i}", f"forcedTimeStop{i}", f"time{i}Mode" and
\* f"forcedStopSwitch{i}"
FieldKey(name, i) == <<name, i>>

FieldNames == {"forcedTimeStart", "forcedTimeStop", "timeMode", "forcedStopSwitch"}

\* `not value`: None, the empty text and 0 are false
FalsyField(value) ==
    \/ value.t = "none"
    \/ value.t = "str" /\ value.chars = <<>>
    \/ value.t = "int" /\ value.n = 0

\* a time field as "HH:MM"; raises is TRUE where .split is called on a value
\* that is not a text
TimeOfField(field) ==
    LET got == IF field = FAbsent THEN FStr(ZeroTime) ELSE field
        raw == IF got = FStr(NullText) \/ FalsyField(got)
               THEN FStr(ZeroTime) ELSE got
        parts == Split(raw.chars, ":")
        hour == IntOfText(parts[1])
        minute == IntOfText(parts[2])
    IN  IF raw.t # "str" THEN [raises |-> TRUE, text |-> <<>>]
        ELSE IF Len(parts) < 2 \/ ~hour.ok \/ ~minute.ok
        THEN [raises |-> FALSE, text |-> MidnightText]
        ELSE [raises |-> FALSE,
              text |-> Format02d(hour.n) \o <<":">> \o Format02d(minute.n)]

\* int(value) of a field that is not None: ok is FALSE for ValueError
IntOfField(value) ==
    IF value.t = "int" THEN [ok |-> TRUE, n |-> value.n]
    ELSE IntOfText(value.chars)

\* batt_mode: None, or the int of the mode field
ModeOfField(field) ==
    IF field = FStr(NullText) \/ field = FNone \/ field = FAbsent THEN FNone
    ELSE IF IntOfField(field).ok THEN FInt(IntOfField(field).n)
    ELSE FNone

\* mode_names.get(batt_mode, "Unknown")
ModeName(batt_mode) ==
    IF batt_mode = FInt(0) THEN "Load First"
    ELSE IF batt_mode = FInt(1) THEN "Battery First"
    ELSE IF batt_mode = FInt(2) THEN "Grid First"
    ELSE "Unknown"

\* enabled: the switch field, 0 when it is missing
EnabledOfField(field) ==
    LET raw == IF field = FAbsent THEN FInt(0) ELSE field
    IN  IF raw = FStr(NullText) \/ raw = FNone THEN FALSE
        ELSE IntOfField(raw).ok /\ IntOfField(raw).n = 1

\* the loop over the segments of min_read_time_segments /
\* Min.read_time_segments: one record per segment
ParseTimeSegments(fields) ==
    LET ids == Range(SegmentsStop)
        start(i) == TimeOfField(fields[FieldKey("forcedTimeStart", i)])
        stop(i) == TimeOfField(fields[FieldKey("forcedTimeStop", i)])
        mode(i) == ModeOfField(fields[FieldKey("timeMode", i)])
    IN  IF \E k \in 1 .. Len(ids) : start(ids[k]).raises \/ stop(ids[k]).raises
        THEN Raise("AttributeError")
        ELSE Return([k \in 1 .. Len(ids) |->
                [segment_id |-> ids[k],
                 batt_mode |-> mode(ids[k]),
                 mode_name |-> ModeName(mode(ids[k])),
                 start_time |-> start(ids[k]).text,
                 end_time |-> stop(ids[k]).text,
                 enabled |-> EnabledOfField(
                                 fields[FieldKey("forcedStopSwitch", ids[k])])]])

\* the stop of range(1, 4), the loop over the periods of an SPH inverter
PeriodsStop == 4

\* the keys f"forced{time_type}TimeStart{i}", f"forced{time_type}TimeStop{i}"
\* and f"forced{time_type}StopSwitch{i}"
PeriodKey(time_type, name, i) == <<"forced", time_type, name, i>>

TimeTypes == {"Charge", "Discharge"}

PeriodNames == {"TimeStart", "TimeStop", "StopSwitch"}

\* OpenApiV1._parse_time_periods (open_api_v1.py) and
\* Sph._parse_time_periods (devices/sph.py): one record per period
ParseTimePeriods(fields, time_type) ==
    LET ids == Range(PeriodsStop)
        start(i) == TimeOfField(fields[PeriodKey(time_type, "TimeStart", i)])
        stop(i) == TimeOfField(fields[PeriodKey(time_type, "TimeStop", i)])
    IN  IF \E k \in 1 .. Len(ids) : start(ids[k]).raises \/ stop(ids[k]).raises
        THEN Raise("AttributeError")
        ELSE Return([k \in 1 .. Len(ids) |->
                [period_id |-> ids[k],
                 start_time |-> start(ids[k]).text,
                 end_time |-> stop(ids[k]).text,
                 enabled |-> EnabledOfField(
                                 fields[PeriodKey(time_type, "StopSwitch", ids[k])])]])

\* the dict the sph_read_ac_* methods return: the global settings and the
\* periods
AcTimes(parsed) ==
    IF parsed.kind = "raise" THEN parsed
    ELSE Return([t |-> "dict", n |-> 0, s |-> "config", periods |-> parsed.value])

(***************************************************************************)
(* OpenApiV1, Min and Sph: reading the time segments and the AC times.     *)
(***************************************************************************)
\* settings_data is None: the settings are fetched by `fetch`
SettingsOrFetch(settings_data, fetch) ==
    IF settings_data = JNone
    THEN fetch
    ELSE NoRequest(Return(settings_data))

\* settings_data.get(...): the values are extracted from the settings, which
\* fails when the fetched 'data' is None
Extracted(got, parsed) ==
    IF got.outcome.kind = "raise" THEN got
    ELSE IF got.outcome.value.t # "dict"
    THEN [sent |-> got.sent, outcome |-> Raise("AttributeError")]
    ELSE [sent |-> got.sent, outcome |-> parsed]

\* OpenApiV1.min_read_time_segments (open_api_v1.py) and
\* Min.read_time_segments (devices/min.py): nine segment records are built
\* from the settings
read_time_segments(i, sess, settings_data, fields, response) ==
    LET got == SettingsOrFetch(settings_data, min_settings(i, sess, response))
    IN  Extracted(got, ParseTimeSegments(fields))

\* OpenApiV1.sph_read_ac_charge_times, sph_read_ac_discharge_times
\* (open_api_v1.py)
sph_read_ac_times(i, sess, device_sn, settings_data, fields, time_type, response) ==
    IF settings_data = JNone /\ device_sn = JNone
    THEN NoRequest(Raise("GrowattParameterError"))
    ELSE LET got == SettingsOrFetch(settings_data, sph_detail(i, sess, response))
         IN  Extracted(got, AcTimes(ParseTimePeriods(fields, time_type)))

\* Sph.read_ac_charge_times, Sph.read_ac_discharge_times (devices/sph.py)
Sph_read_ac_times(i, sess, settings_data, fields, time_type, response) ==
    LET got == SettingsOrFetch(settings_data, Sph_detail(i, sess, response))
    IN  Extracted(got, AcTimes(ParseTimePeriods(fields, time_type)))

\* the methods of OpenApiV1 in open_api_v1/__init__.py build a device and
\* call it: Min(self, device_sn) for the MIN methods, Sph(device_sn) for
\* the SPH methods
ViaMin(result) ==
    IF DeviceInitFails(2) THEN NoRequest(Raise("TypeError")) ELSE result

ViaSph(result) ==
    IF DeviceInitFails(1) THEN NoRequest(Raise("TypeError")) ELSE result

IsV1(i) == client[i].cls = "OpenApiV1"

IsMono(i) == client[i].module = "open_api_v1.py"

\* who is called: a method of OpenApiV1, or (open_api_v1/ only) a method
\* of a device object built as Min(api, device_sn) or Sph(api, device_sn)
Vias(i) == IF IsMono(i) THEN {"api"} ELSE {"api", "device"}

DateArgs == {JNone} \cup {JInt(d) : d \in 0 .. MaxDay}

StartDateArgs == {JNone, JInt(0), JInt(1)}

Todays == {0, MaxDay}

CallEnergyHistory ==
    /\ call = NoCall
    /\ \E i \in Instances, family \in {"min", "sph"}, via \in {"api", "device"},
       start_date \in StartDateArgs, end_date \in DateArgs, today \in Todays,
       response \in V1ResponsesShort :
        /\ IsV1(i)
        /\ via \in Vias(i)
        /\ (start_date # JNone \/ end_date # JNone) => today = 0
        /\ LET sess == session[i]
               args == [start_date |-> start_date, end_date |-> end_date,
                        today |-> today]
               result ==
                 CASE IsMono(i) /\ family = "min" ->
                        energy_history(i, sess, "device/tlx/tlx_data",
                                       start_date, end_date, today, response)
                   [] IsMono(i) /\ family = "sph" ->
                        energy_history(i, sess, "device/mix/mix_data",
                                       start_date, end_date, today, response)
                   [] ~IsMono(i) /\ family = "min" /\ via = "api" ->
                        ViaMin(Min_energy_history(i, sess, start_date, end_date,
                                                  today, response))
                   [] ~IsMono(i) /\ family = "sph" /\ via = "api" ->
                        ViaSph(Sph_energy_history(i, sess, start_date, end_date,
                                                  today, response))
                   [] ~IsMono(i) /\ family = "min" /\ via = "device" ->
                        Min_energy_history(i, sess, start_date, end_date,
                                           today, response)
                   [] ~IsMono(i) /\ family = "sph" /\ via = "device" ->
                        Sph_energy_history(i, sess, start_date, end_date,
                                           today, response)
           IN  call' = Called(i, <<via, family, "energy_history">>, args, result)
        /\ UNCHANGED <<client, session, class_agent_identifier, readerVars>>

CallReadParameter ==
    /\ call = NoCall
    /\ \E i \in Instances, family \in {"min", "sph"}, via \in {"api", "device"},
       parameter_id \in {JNone, JStr("pv_active_p_rate")},
       start_address \in {JNone, JInt(0), JInt(5)}, response \in V1ResponsesShort :
        /\ IsV1(i)
        /\ via \in Vias(i)
        /\ LET sess == session[i]
               args == [parameter_id |-> parameter_id,
                        start_address |-> start_address]
               result ==
                 CASE IsMono(i) /\ family = "min" ->
                        read_parameter(i, sess, "readMinParam", parameter_id,
                                       start_address, response)
                   [] IsMono(i) /\ family = "sph" ->
                        read_parameter(i, sess, "readMixParam", parameter_id,
                                       start_address, response)
                   [] ~IsMono(i) /\ family = "min" /\ via = "api" ->
                        ViaMin(read_parameter(i, sess, "readMinParam",
                                   parameter_id, start_address, response))
                   [] ~IsMono(i) /\ family = "sph" /\ via = "api" ->
                        ViaSph(Sph_read_parameter(i, sess, parameter_id,
                                                  start_address, response))
                   [] ~IsMono(i) /\ family = "min" /\ via = "device" ->
                        read_parameter(i, sess, "readMinParam", parameter_id,
                                       start_address, response)
                   [] ~IsMono(i) /\ family = "sph" /\ via = "device" ->
                        Sph_read_parameter(i, sess, parameter_id,
                                           start_address, response)
           IN  call' = Called(i, <<via, family, "read_parameter">>, args, result)
        /\ UNCHANGED <<client, session, class_agent_identifier, readerVars>>

CallWriteTimeSegment ==
    /\ call = NoCall
    /\ \E i \in Instances, via \in {"api", "device"},
       segment_id \in (1 - ArgSlack) .. (max_min_segments + ArgSlack),
       batt_mode \in (0 - ArgSlack) .. (max_batt_mode + ArgSlack),
       response \in V1ResponsesShort :
        /\ IsV1(i)
        /\ via \in Vias(i)
        /\ LET sess == session[i]
               args == [segment_id |-> segment_id, batt_mode |-> batt_mode]
               body == write_time_segment(i, sess, segment_id, batt_mode, response)
               result == IF ~IsMono(i) /\ via = "api" THEN ViaMin(body) ELSE body
           IN  call' = Called(i, <<via, "min", "write_time_segment">>, args, result)
        /\ UNCHANGED <<client, session, class_agent_identifier, readerVars>>

\* the fields of one segment: texts of a time, of a mode and of a switch
TimeTexts ==
    { <<"8", ":", "3", "0">>, <<"2", "3", ":", "5">>, <<"0", ":", "0">>,
      NullText, <<>>, <<"8">>, <<"x", ":", "1">>, <<" ", "7", ":", "0", "5">>,
      <<"-", "1", ":", "3", "0">>, <<"1", "2", "3", ":", "5">> }

TimeFields == {FAbsent, FNone} \cup {FStr(text) : text \in TimeTexts}

ModeFields ==
    {FAbsent, FNone, FInt(0), FInt(1), FInt(2), FInt(3),
     FStr(<<"1">>), FStr(NullText), FStr(<<"x">>)}

SwitchFields ==
    {FAbsent, FNone, FInt(0), FInt(1), FStr(<<"1">>), FStr(<<"0">>),
     FStr(NullText), FStr(<<>>)}

\* a settings dict without any of the segment fields
NoFields == [k \in {FieldKey(name, i) : name \in FieldNames,
                                         i \in 1 .. (SegmentsStop - 1)} |-> FAbsent]

\* a settings dict with the fields of segment i, and of no other
SegmentFields(i, start, stop, mode, switch) ==
    [NoFields EXCEPT ![FieldKey("forcedTimeStart", i)] = start,
                     ![FieldKey("forcedTimeStop", i)] = stop,
                     ![FieldKey("timeMode", i)] = mode,
                     ![FieldKey("forcedStopSwitch", i)] = switch]

\* the settings dicts of the model: one segment, the first or the last,
\* with one of its fields varied
SettingsFields ==
    {NoFields}
    \cup { SegmentFields(i, start, FStr(<<"1", "7", ":", "4", "5">>), FInt(1), FInt(1)) :
             i \in {1, SegmentsStop - 1}, start \in TimeFields }
    \cup { SegmentFields(i, FStr(<<"8", ":", "3", "0">>), stop, FInt(1), FInt(1)) :
             i \in {1, SegmentsStop - 1}, stop \in TimeFields }
    \cup { SegmentFields(i, FStr(<<"8", ":", "3", "0">>), FStr(ZeroTime), mode, FInt(0)) :
             i \in {1, SegmentsStop - 1}, mode \in ModeFields }
    \cup { SegmentFields(i, FStr(<<"8", ":", "3", "0">>), FStr(ZeroTime), FInt(2), switch) :
             i \in {1, SegmentsStop - 1}, switch \in SwitchFields }

\* the response with error_code 0 and the data
V1Ok ==
    [status |-> 200,
     json |-> [error_code |-> JInt(0), error_msg |-> Absent, data |-> JDict("data")]]

\* fields is the content of the settings dict, passed or fetched
CallReadTimeSegments ==
    /\ call = NoCall
    /\ \E i \in Instances, via \in {"api", "device"},
          settings_data \in {JNone, JDict("settings")},
          fields \in SettingsFields, response \in V1Responses :
        /\ IsV1(i)
        /\ via \in Vias(i)
        /\ settings_data # JNone => response = V1Ok
        /\ (settings_data = JNone /\ response # V1Ok) => fields = NoFields
        /\ LET sess == session[i]
               args == [device_sn |-> JStr("SN"), settings_data |-> settings_data,
                        fields |-> fields]
               body == read_time_segments(i, sess, settings_data, fields, response)
               result == IF ~IsMono(i) /\ via = "api" THEN ViaMin(body) ELSE body
           IN  call' = Called(i, <<via, "min", "read_time_segments">>, args, result)
        /\ UNCHANGED <<client, session, class_agent_identifier, readerVars>>

\* a settings dict without any of the period fields
NoPeriodFields ==
    [k \in {PeriodKey(time_type, name, i) :
               time_type \in TimeTypes, name \in PeriodNames,
               i \in 1 .. (PeriodsStop - 1)} |-> FAbsent]

\* a settings dict with the fields of period i of one time type
PeriodFields(time_type, i, start, stop, switch) ==
    [NoPeriodFields EXCEPT ![PeriodKey(time_type, "TimeStart", i)] = start,
                           ![PeriodKey(time_type, "TimeStop", i)] = stop,
                           ![PeriodKey(time_type, "StopSwitch", i)] = switch]

\* the settings dicts with periods of the model: one period of one time
\* type, the first or the last, with its start time or its switch varied
PeriodSettings ==
    {NoPeriodFields}
    \cup { PeriodFields(time_type, i, start, start, FInt(1)) :
             time_type \in TimeTypes, i \in {1, PeriodsStop - 1},
             start \in TimeFields }
    \cup { PeriodFields(time_type, i, FStr(<<"8", ":", "3", "0">>), FStr(ZeroTime), switch) :
             time_type \in TimeTypes, i \in {1, PeriodsStop - 1},
             switch \in SwitchFields }

\* the time_type the two methods pass to _parse_time_periods
TimeTypeOf(which) ==
    IF which = "read_ac_charge_times" THEN "Charge" ELSE "Discharge"

\* fields is the content of the settings dict, passed or fetched
CallReadAcTimes ==
    /\ call = NoCall
    /\ \E i \in Instances, via \in {"api", "device"},
       which \in {"read_ac_charge_times", "read_ac_discharge_times"},
       device_sn \in {JNone, JStr("SN")},
       settings_data \in {JNone, JDict("settings")},
       fields \in PeriodSettings, response \in V1ResponsesShort :
        /\ IsV1(i)
        /\ via \in Vias(i)
        /\ (device_sn = JNone \/ response # V1Ok
               \/ (~IsMono(i) /\ (via = "api" \/ settings_data = JNone)))
              => fields = NoPeriodFields
        /\ LET sess == session[i]
               time_type == TimeTypeOf(which)
               args == [device_sn |-> device_sn, settings_data |-> settings_data,
                        fields |-> fields]
               result ==
                 CASE IsMono(i) ->
                        sph_read_ac_times(i, sess, device_sn, settings_data,
                                          fields, time_type, response)
                   [] ~IsMono(i) /\ via = "api" ->
                        ViaSph(Sph_read_ac_times(i, sess, settings_data,
                                                 fields, time_type, response))
                   [] ~IsMono(i) /\ via = "device" ->
                        Sph_read_ac_times(i, sess, settings_data,
                                          fields, time_type, response)
           IN  call' = Called(i, <<via, "sph", which>>, args, result)
        /\ UNCHANGED <<client, session, class_agent_identifier, readerVars>>

\* the methods that do nothing but one V1 request: min_settings and
\* sph_detail of OpenApiV1, settings of Min and detail of Sph
CallSettings ==
    /\ call = NoCall
    /\ \E i \in Instances, family \in {"min", "sph"}, via \in {"api", "device"},
          response \in V1Responses :
        /\ IsV1(i)
        /\ via \in Vias(i)
        /\ LET sess == session[i]
               result ==
                 CASE IsMono(i) /\ family = "min" -> min_settings(i, sess, response)
                   [] IsMono(i) /\ family = "sph" -> sph_detail(i, sess, response)
                   [] ~IsMono(i) /\ family = "min" /\ via = "api" ->
                        \* Min(self, device_sn).settings(device_sn): settings
                        \* takes no argument
                        ViaMin(NoRequest(Raise("TypeError")))
                   [] ~IsMono(i) /\ family = "sph" /\ via = "api" ->
                        ViaSph(Sph_detail(i, sess, response))
                   [] ~IsMono(i) /\ family = "min" /\ via = "device" ->
                        min_settings(i, sess, response)
                   [] ~IsMono(i) /\ family = "sph" /\ via = "device" ->
                        Sph_detail(i, sess, response)
           IN  call' = Called(i, <<via, family, "settings">>, <<>>, result)
        /\ UNCHANGED <<client, session, class_agent_identifier, readerVars>>


\* the longest periods list passed to the write methods of the SPH
MaxPeriods == 4

\* the highest percentage of charge_power, charge_stop_soc and the like
MaxPercent == 100

\* periods must contain exactly 3 period definitions
PeriodsRequired == 3

\* the checks of the power, the stop SOC and len(periods)
WriteAcTimesInvalid(power, stop_soc, n_periods) ==
    \/ ~(0 <= power /\ power <= MaxPercent)
    \/ ~(0 <= stop_soc /\ stop_soc <= MaxPercent)
    \/ n_periods # PeriodsRequired

\* OpenApiV1.sph_write_ac_charge_times, sph_write_ac_discharge_times
\* (open_api_v1.py)
sph_write_ac_times(i, sess, power, stop_soc, n_periods, response) ==
    IF WriteAcTimesInvalid(power, stop_soc, n_periods)
    THEN NoRequest(Raise("GrowattParameterError"))
    ELSE V1Request(i, sess, "POST", "mixSet", response)

\* Sph.write_ac_charge_times, Sph.write_ac_discharge_times (devices/sph.py)
Sph_write_ac_times(i, sess, power, stop_soc, n_periods, response) ==
    IF WriteAcTimesInvalid(power, stop_soc, n_periods)
    THEN NoRequest(Raise("GrowattParameterError"))
    ELSE IF ~DeviceHasSession
    THEN NoRequest(Raise("AttributeError"))
    ELSE V1Request(i, sess, "POST", "mixSet", response)

\* percentages around both ends of the valid range
PercentArgs ==
    ((0 - ArgSlack) .. 0) \cup (MaxPercent .. (MaxPercent + ArgSlack))

CallWriteAcTimes ==
    /\ call = NoCall
    /\ \E i \in Instances, via \in {"api", "device"},
          which \in {"write_ac_charge_times", "write_ac_discharge_times"},
          power \in PercentArgs, stop_soc \in PercentArgs,
          n_periods \in 0 .. MaxPeriods, response \in V1ResponsesShort :
        /\ IsV1(i)
        /\ via \in Vias(i)
        /\ LET sess == session[i]
               args == [power |-> power, stop_soc |-> stop_soc,
                        n_periods |-> n_periods]
               result ==
                 CASE IsMono(i) ->
                        sph_write_ac_times(i, sess, power, stop_soc, n_periods,
                                           response)
                   [] ~IsMono(i) /\ via = "api" ->
                        ViaSph(Sph_write_ac_times(i, sess, power, stop_soc,
                                                  n_periods, response))
                   [] ~IsMono(i) /\ via = "device" ->
                        Sph_write_ac_times(i, sess, power, stop_soc, n_periods,
                                           response)
           IN  call' = Called(i, <<via, "sph", which>>, args, result)
        /\ UNCHANGED <<client, session, class_agent_identifier, readerVars>>

\* the days of a year of the model's calendar
DaysPerYear == 365

\* max_day_interval of plant_energy_history
max_day_interval == 7

\* max_year_interval of plant_energy_history
max_year_interval == 20

\* date.year of a date given as a day number
YearOf(day) == day \div DaysPerYear

\* the validation of plant_energy_history: which date ranges are warned
\* about
PlantDatesInvalid(dates, time_unit) ==
    \/ time_unit = "day" /\ dates[2] - dates[1] > max_day_interval
    \/ time_unit = "month" /\ YearOf(dates[2]) - YearOf(dates[1]) > 1
    \/ time_unit = "year" /\ YearOf(dates[2]) - YearOf(dates[1]) > max_year_interval

\* OpenApiV1.plant_energy_history (open_api_v1.py and open_api_v1/__init__.py):
\* an invalid date range gives warnings.warn(..., RuntimeWarning) and the
\* request is sent all the same
plant_energy_history(i, sess, start_date, end_date, time_unit, today, response) ==
    LET dates == HistoryDates(start_date, end_date, today)
        got == V1Request(i, sess, "GET", "plant/energy", response)
    IN  [sent |-> got.sent, outcome |-> got.outcome,
         warnings |-> IF PlantDatesInvalid(dates, time_unit)
                      THEN <<"RuntimeWarning">> ELSE <<>>]

\* end dates on both sides of each limit, the start date being day 0
PlantEndDays ==
    {0, max_day_interval, max_day_interval + 1}
    \cup { k * DaysPerYear : k \in {1, 2, max_year_interval, max_year_interval + 1} }

CallPlantEnergyHistory ==
    /\ call = NoCall
    /\ \E i \in Instances, start_date \in {JNone, JInt(0)},
          end_date \in {JNone} \cup {JInt(d) : d \in PlantEndDays},
          time_unit \in {"day", "month", "year"},
          response \in V1ResponsesShort :
        /\ IsV1(i)
        /\ call' = Called(i, <<"api", "", "plant_energy_history">>,
                     [start_date |-> start_date, end_date |-> end_date,
                      time_unit |-> time_unit, today |-> 0],
                     plant_energy_history(i, session[i], start_date, end_date,
                                          time_unit, 0, response))
        /\ UNCHANGED <<client, session, class_agent_identifier, readerVars>>

(***************************************************************************)
(* GrowattApi: reading and writing inverter settings.                      *)
(***************************************************************************)
\* the answers of newTcpsetAPI.do?action=readDeviceParam to
\* read_inverter_setting: those of the register reads, and result 0 without
\* a message
SettingAnswers ==
    ReaderAnswers \cup {[status |-> 200, json |-> [result |-> 0, msg |-> NoMsg]]}

\* the form data of read_inverter_setting: `if setting_name:` chooses the
\* named setting, anything else the register through set_any_reg
SettingQuery(setting_name, register_address) ==
    IF Truthy(setting_name)
    THEN [paramId |-> setting_name, startAddr |-> JInt(-1), endAddr |-> JInt(-1)]
    ELSE [paramId |-> JStr("set_any_reg"), startAddr |-> register_address,
          endAddr |-> register_address]

\* success = response_json.get("result") == 1
SettingSuccess(response_json) == response_json.result = 1

\* the result_dict of read_inverter_setting
SettingResult(response_json) ==
    LET msg == response_json.msg
    IN  [ success |-> SettingSuccess(response_json),
          error_message |->
            IF msg = Msg501 THEN msg \o <<" inverter offline">>
            ELSE IF msg = Msg500 THEN msg \o <<" timeout or inverter offline">>
            ELSE msg ]

\* GrowattApi.read_inverter_setting (growattServer/__init__.py)
read_inverter_setting(i, sess, setting_name, register_address, response) ==
    IF ~(setting_name # JNone \/ register_address # JNone)
    THEN NoRequest(Raise("AssertionError"))
    ELSE IF ~(setting_name = JNone \/ register_address = JNone)
    THEN NoRequest(Raise("AssertionError"))
    ELSE LET got == OneRequest(i, sess, "POST",
                        "newTcpsetAPI.do?action=readDeviceParam", response,
                        Return(SettingResult(response.json)))
             data == SettingQuery(setting_name, register_address)
         IN  [ sent |-> << got.sent[1] @@ [data |-> data] >>,
               outcome |-> got.outcome ]

CallReadInverterSetting ==
    /\ call = NoCall
    /\ \E i \in Instances,
          setting_name \in {JNone, JStr(""), JStr("pv_active_p_rate")},
          register_address \in {JNone, JInt(0), JInt(90)},
          response \in SettingAnswers :
        /\ IsGrowattApi(i)
        /\ client[i].module # "base_api"
        /\ call' = Called(i, <<"api", "", "read_inverter_setting">>,
                     [setting_name |-> setting_name,
                      register_address |-> register_address],
                     read_inverter_setting(i, session[i], setting_name,
                                           register_address, response))
        /\ UNCHANGED <<client, session, class_agent_identifier, readerVars>>

\* the longest parameter list passed to update_tlx_inverter_setting
MaxParams == 3

\* f"param{n}", a key of the request parameters
ParamKey(n) == <<"param", n>>

\* the keys "op", "serialNum" and "type"
NamedKey(name) == <<name, 0>>

\* the values of single parameters, list elements and dict entries
ParamValues == {JStr("a"), JInt(1)}

\* {f"param{index+1}": param for index, param in enumerate(parameter)},
\* with the index taken as it comes from enumerate
ListToParamsFromZero(list) ==
    [k \in {ParamKey(idx - 1) : idx \in 1 .. Len(list)} |-> list[k[2] + 1]]

\* {f"param{index+1}": param for index, param in enumerate(parameter)}
ListToParams(list) ==
    [k \in {ParamKey(idx) : idx \in 1 .. Len(list)} |-> list[k[2]]]

\* {**a, **b}
MergeDicts(a, b) ==
    [k \in DOMAIN a \cup DOMAIN b |-> IF k \in DOMAIN b THEN b[k] ELSE a[k]]

\* a parameter argument: a single value, a list or a dict
SingleParam(v) == [kind |-> "single", single |-> v, list |-> <<>>, dict |-> <<>>]

ListParam(l) == [kind |-> "list", single |-> JNone, list |-> l, dict |-> <<>>]

DictParam(d) == [kind |-> "dict", single |-> JNone, list |-> <<>>, dict |-> d]

\* the lists of at most n values
ParamLists(n) == UNION {[1 .. len -> ParamValues] : len \in 0 .. n}

\* dicts in the documented format {"param1": ..., "param2": ...}
ParamDicts ==
    UNION {[keys -> ParamValues] : keys \in SUBSET {ParamKey(1), ParamKey(2)}}

ParameterArgs ==
    {SingleParam(v) : v \in ParamValues}
    \cup {ListParam(l) : l \in ParamLists(MaxParams)}
    \cup {DictParam(d) : d \in ParamDicts}

\* GrowattApi._update_inverter_setting (growattServer/__init__.py),
\* GrowattApi.update_inverter_setting (base_api.py); parameters is a list
\* (is_list) or a dict
update_inverter_setting(i, sess, default_parameters, parameters, is_list, response) ==
    LET settings_parameters ==
            MergeDicts(default_parameters,
                       IF is_list THEN ListToParams(parameters) ELSE parameters)
        got == OneRequest(i, sess, "POST", "newTcpsetAPI.do", response,
                          Return(response.json))
    IN  [ sent |-> << got.sent[1] @@ [data |-> settings_parameters] >>,
          outcome |-> got.outcome ]

\* GrowattApi.update_tlx_inverter_setting
update_tlx_inverter_setting(i, sess, setting_type, parameter, response) ==
    LET default_parameters ==
            [k \in {NamedKey("op"), NamedKey("serialNum"), NamedKey("type")} |->
                CASE k = NamedKey("op") -> JStr("tlxSet")
                  [] k = NamedKey("serialNum") -> JStr("SN")
                  [] k = NamedKey("type") -> JStr(setting_type)]
        converted ==
            IF parameter.kind \notin {"dict", "list"}
            THEN [k \in {ParamKey(1)} |-> parameter.single]
            ELSE IF parameter.kind = "list"
            THEN ListToParams(parameter.list)
            ELSE parameter.dict
    IN  update_inverter_setting(i, sess, default_parameters, converted, FALSE,
                                response)

CallUpdateTlxInverterSetting ==
    /\ call = NoCall
    /\ \E i \in Instances, parameter \in ParameterArgs, response \in ReaderAnswers :
        /\ IsGrowattApi(i)
        /\ call' = Called(i, <<"api", "", "update_tlx_inverter_setting">>,
                     [parameter |-> parameter],
                     update_tlx_inverter_setting(i, session[i], "pv_active_p_rate",
                                                 parameter, response))
        /\ UNCHANGED <<client, session, class_agent_identifier, readerVars>>

(***************************************************************************)
(* Specifications.                                                         *)
(***************************************************************************)
Init == ReaderInit /\ ApiInit

ReaderNext ==
    \/ ForNext
    \/ ForDone
    \/ WhileExit
    \/ WhileIter

SpecReader == Init /\ [][ReaderNext]_vars

\* The script runs on: every request is answered and every sleep ends, so
\* the next statement of the script is executed eventually. Which answer the
\* server gives is not constrained.
SpecReaderFair == SpecReader /\ WF_vars(ReaderNext)

ApiNext ==
    \/ NewGrowattApi
    \/ NewOpenApiV1
    \/ CallLogin
    \/ CallDeviceList
    \/ CallUpdatePlantSettings
    \/ CallReadInverterRegisters
    \/ CallEnergyHistory
    \/ CallReadParameter
    \/ CallWriteTimeSegment
    \/ CallReadTimeSegments
    \/ CallReadAcTimes
    \/ CallSettings
    \/ ResultUsed
    \/ CallWriteAcTimes
    \/ CallPlantEnergyHistory
    \/ CallReadInverterSetting
    \/ CallUpdateTlxInverterSetting

SpecApi == Init /\ [][ApiNext]_vars

(***************************************************************************)
(* Claims about the register range reader.                                 *)
(***************************************************************************)
\* the last read request was answered with a '500' error message
TimedOut == last_read.answer = "500"

\* C1 as stated: after a read answered with '500', the chunk size for the
\* next request of the range is half (integer halving) of the chunk size of
\* the failed request.
C1_HalvedAfter500 ==
    TimedOut => chunk_size = last_read.chunk \div 2

\* C1 amended: after a read answered with '500', the chunk size for the next
\* request of the range is max(chunk_size // 2, 10) of the failed request's
\* chunk size: the half from 20 on, and 10 below 20 (which raises a chunk
\* size below 10).
C1_HalvedNotBelowTen ==
    TimedOut =>
        /\ chunk_size = Max2(last_read.chunk \div 2, MinChunkSize)
        /\ (last_read.chunk >= 2 * MinChunkSize
                => chunk_size = last_read.chunk \div 2)
        /\ (last_read.chunk < 2 * MinChunkSize => chunk_size = MinChunkSize)

\* a '500' answer to a request whose chunk size was below 20
C1_Witness == TimedOut /\ last_read.chunk < 2 * MinChunkSize

\* C2 as stated: a '500' answer that repeats for the same chunk (the same
\* start and end address as the request before, which was answered '500'
\* too) makes the reader sleep 30 s before the next request.
C2_RepeatedTimeoutSleeps30 ==
    [][ ( /\ last_read.answer = "500"
          /\ last_read'.answer = "500"
          /\ last_read'.range = last_read.range
          /\ last_read'.start = last_read.start
          /\ last_read'.end = last_read.end )
        => last_read'.sleep = SleepAfterTimeout ]_vars

\* C2 amended: a '500' answer makes the reader sleep 30 s before the next
\* request exactly when the failed request was made with chunk size 10, the
\* size that max(chunk_size // 2, 10) does not change; after a '500' answer
\* at any other chunk size, repeated or not, it sleeps 0.3 s.
C2_Sleeps30AtChunkSizeTen ==
    TimedOut =>
        /\ last_read.sleep = SleepAfterTimeout <=> last_read.chunk = MinChunkSize
        /\ last_read.chunk # MinChunkSize => last_read.sleep = SleepAfterReduce

\* a '500' answer followed by the 30 s sleep
C2_Witness == TimedOut /\ last_read.sleep = SleepAfterTimeout

(***************************************************************************)
(* The client library: properties of one call.                             *)
(***************************************************************************)
\* the requests of the last call, in the order they were sent
Requests == DOMAIN call.sent

\* the last call is a call of the named method
IsCallOf(name) == call # NoCall /\ call.method[3] = name

\* C3: the library has no retry policy. One call sends each of its
\* requests at most once (no two requests of a call have the same verb and
\* endpoint), and a response with an error status is the last thing the
\* call receives: nothing is sent after it.
C3_NoRetry ==
    /\ \A a, b \in Requests :
          a < b => <<call.sent[a].verb, call.sent[a].endpoint>>
                     # <<call.sent[b].verb, call.sent[b].endpoint>>
    /\ \A a \in Requests :
          IsErrorStatus(call.sent[a].response.status) => a = Len(call.sent)

\* a call whose second request was answered with an error status
C3_Witness ==
    /\ Len(call.sent) = 2
    /\ IsErrorStatus(call.sent[2].response.status)
    /\ call.outcome.kind = "raise"

\* C4: a response with an error status makes the call raise
\* requests' HTTPError for that response, and no value is returned.
C4_HttpErrorRaised ==
    \A a \in Requests :
        IsErrorStatus(call.sent[a].response.status) =>
            /\ call.outcome.kind = "raise"
            /\ call.outcome.exc = "HTTPError"
            /\ call.outcome.status = call.sent[a].response.status
            /\ call.outcome.value = Absent

\* login_v2 received 403: the one place that catches HTTPError
C4_Witness ==
    /\ IsCallOf("login_v2")
    /\ Len(call.sent) = 1
    /\ call.sent[1].response.status = StatusForbidden
    /\ call.outcome.exc = "HTTPError"

\* C5: for a V1 response received with a good HTTP status,
\* process_response raises GrowattV1ApiError with the response's error_code
\* and error_msg exactly when error_code is not 0 (a missing error_code is
\* an error), and otherwise returns the 'data' field.
C5_ProcessResponse ==
    (IsCallOf("settings") /\ Len(call.sent) = 1
        /\ ~IsErrorStatus(call.sent[1].response.status)) =>
        LET r == call.sent[1].response.json
            o == call.outcome
        IN  IF r.error_code = JInt(0)
            THEN /\ o.kind = "return"
                 /\ o.value = (IF r.data = Absent THEN JNone ELSE r.data)
            ELSE /\ o.kind = "raise"
                 /\ o.exc = "GrowattV1ApiError"
                 /\ o.error_code = (IF r.error_code = Absent THEN JNone
                                    ELSE r.error_code)
                 /\ o.error_msg = (IF r.error_msg = Absent
                                   THEN JStr("Unknown error") ELSE r.error_msg)

\* a response without error_code raised GrowattV1ApiError
C5_Witness ==
    /\ IsCallOf("settings")
    /\ Len(call.sent) = 1
    /\ call.sent[1].response.status = 200
    /\ call.sent[1].response.json.error_code = Absent
    /\ call.sent[1].response.json.data # Absent
    /\ call.outcome.exc = "GrowattV1ApiError"

\* C6: the session headers are fixed at construction. No step
\* changes the session of a constructed client, and every request of a call
\* goes through the session of the called client with that session's
\* headers.
C6_HeadersFixed ==
    /\ [][\A i \in Instances : session[i].exists => session'[i] = session[i]]_vars
    /\ [](\A a \in Requests :
            /\ call.sent[a].session = call.client
            /\ session[call.client].exists
            /\ call.sent[a].headers = session[call.client].headers
            /\ call.sent[a].headers.UserAgent = client[call.client].agent_identifier)

\* an OpenApiV1 client sent two requests in one call, with its token
C6_Witness ==
    /\ call # NoCall
    /\ call.cls = "OpenApiV1"
    /\ Len(call.sent) = 2
    /\ call.sent[2].headers.token \in Tokens

\* the calls C7 is about
IsReadWithSettings ==
    \/ IsCallOf("read_time_segments")
    \/ IsCallOf("read_ac_charge_times")
    \/ IsCallOf("read_ac_discharge_times")

\* C7: when settings_data is passed, the call sends no request;
\* when it is omitted, the call sends exactly one request.
C7_SettingsDataRequests ==
    IsReadWithSettings =>
        IF call.args.settings_data # JNone
        THEN Len(call.sent) = 0
        ELSE Len(call.sent) = 1

\* the interval of an energy_history call, after the defaults
CallInterval ==
    LET a == call.args
        start == IF a.start_date # JNone THEN a.start_date.n
                 ELSE IF a.end_date # JNone THEN a.end_date.n ELSE a.today
        end == IF a.end_date # JNone THEN a.end_date.n
               ELSE IF a.start_date # JNone THEN a.start_date.n ELSE a.today
    IN  end - start

\* C8: an energy_history call with an interval of more than 7
\* days raises GrowattParameterError and sends nothing.
C8_IntervalChecked ==
    (IsCallOf("energy_history") /\ CallInterval > 7) =>
        /\ call.outcome.exc = "GrowattParameterError"
        /\ call.sent = <<>>

\* C9: a read_parameter call with neither or both of
\* parameter_id and start_address raises GrowattParameterError and sends
\* nothing.
C9_ExactlyOneOf ==
    (IsCallOf("read_parameter")
        /\ ((call.args.parameter_id = JNone) <=> (call.args.start_address = JNone))) =>
        /\ call.outcome.exc = "GrowattParameterError"
        /\ call.sent = <<>>

\* C10: a write_time_segment call with segment_id outside 1..9
\* or batt_mode outside 0..2 raises GrowattParameterError and sends nothing.
C10_TimeSegmentChecked ==
    (IsCallOf("write_time_segment")
        /\ (call.args.segment_id \notin 1 .. 9 \/ call.args.batt_mode \notin 0 .. 2)) =>
        /\ call.outcome.exc = "GrowattParameterError"
        /\ call.sent = <<>>

\* a valid segment_id with batt_mode 3 was refused
C10_Witness ==
    /\ IsCallOf("write_time_segment")
    /\ call.args.segment_id = 9
    /\ call.args.batt_mode = 3
    /\ call.outcome.exc = "GrowattParameterError"
    /\ call.sent = <<>>

\* the calls of sph_write_ac_charge_times and sph_write_ac_discharge_times
IsWriteAcTimes ==
    IsCallOf("write_ac_charge_times") \/ IsCallOf("write_ac_discharge_times")

\* C11: a write of the AC charge or discharge times with a power or a stop
\* SOC outside 0..100, or with other than 3 periods, raises
\* GrowattParameterError and sends nothing.
C11_WriteAcTimesChecked ==
    (IsWriteAcTimes
        /\ ( \/ call.args.power \notin 0 .. 100
             \/ call.args.stop_soc \notin 0 .. 100
             \/ call.args.n_periods # 3 )) =>
        /\ call.outcome.exc = "GrowattParameterError"
        /\ call.sent = <<>>

\* the calls of sph_read_ac_charge_times and sph_read_ac_discharge_times
IsReadAcTimes ==
    IsCallOf("read_ac_charge_times") \/ IsCallOf("read_ac_discharge_times")

\* C12: a read of the AC charge or discharge times with neither device_sn
\* nor settings_data raises GrowattParameterError.
C12_NeitherRaises ==
    (IsReadAcTimes /\ call.args.device_sn = JNone
        /\ call.args.settings_data = JNone) =>
        call.outcome.exc = "GrowattParameterError"

\* the start and end day of a plant_energy_history call, after the defaults
PlantCallDates ==
    LET a == call.args
    IN  IF a.start_date = JNone /\ a.end_date = JNone THEN <<a.today, a.today>>
        ELSE IF a.start_date = JNone THEN <<a.end_date.n, a.end_date.n>>
        ELSE IF a.end_date = JNone THEN <<a.start_date.n, a.start_date.n>>
        ELSE <<a.start_date.n, a.end_date.n>>

\* C13: plant_energy_history raises GrowattParameterError for an interval
\* of more than 7 days with time_unit 'day', for a start date before the
\* previous year with time_unit 'month', and for an interval of more than
\* 20 years with time_unit 'year'.
C13_PlantDatesChecked ==
    IsCallOf("plant_energy_history") =>
        LET start == PlantCallDates[1]
            end == PlantCallDates[2]
            unit == call.args.time_unit
            years == (end \div DaysPerYear) - (start \div DaysPerYear)
        IN  ( \/ unit = "day" /\ end - start > 7
              \/ unit = "month" /\ years > 1
              \/ unit = "year" /\ years > 20 ) =>
            call.outcome.exc = "GrowattParameterError"

\* C14: read_inverter_setting with neither or both of setting_name and
\* register_address fails without a request; with a setting name alone the
\* one request queries that setting, with a register address alone it
\* queries that one register through set_any_reg.
C14_SettingOrRegister ==
    IsCallOf("read_inverter_setting") =>
        LET name == call.args.setting_name
            reg == call.args.register_address
        IN  /\ ((name = JNone) <=> (reg = JNone)) =>
                  (call.outcome.kind = "raise" /\ call.sent = <<>>)
            /\ (name # JNone /\ reg = JNone) =>
                  (Len(call.sent) = 1 /\ call.sent[1].data.paramId = name)
            /\ (name = JNone /\ reg # JNone) =>
                  /\ Len(call.sent) = 1
                  /\ call.sent[1].data.paramId = JStr("set_any_reg")
                  /\ call.sent[1].data.startAddr = reg
                  /\ call.sent[1].data.endAddr = reg

\* C15: the 'success' flag of read_inverter_setting is true for a server
\* result of 0 and false for a server result of 1.
C15_SuccessAsDocumented ==
    (IsCallOf("read_inverter_setting") /\ call.outcome.kind = "return") =>
        LET result == call.sent[1].response.json.result
        IN  /\ result = 0 => call.outcome.value.success
            /\ result = 1 => ~call.outcome.value.success

\* the "paramN" entries of the parameters of the one request of the call
SentParamKeys == {k \in DOMAIN call.sent[1].data : k[1] = "param"}

\* C16: update_tlx_inverter_setting sends exactly one tlxSet request; its
\* parameters are {param1: v} for a single value v, {param1: list[0],
\* param2: list[1], ...} for a list, and the dict itself for a dict.
C16_ParameterConverted ==
    IsCallOf("update_tlx_inverter_setting") =>
        LET p == call.args.parameter
            data == call.sent[1].data
        IN  /\ Len(call.sent) = 1
            /\ data[<<"op", 0>>] = JStr("tlxSet")
            /\ p.kind = "single" =>
                  /\ SentParamKeys = {<<"param", 1>>}
                  /\ data[<<"param", 1>>] = p.single
            /\ p.kind = "list" =>
                  /\ SentParamKeys = {<<"param", n>> : n \in 1 .. Len(p.list)}
                  /\ \A n \in 1 .. Len(p.list) : data[<<"param", n>>] = p.list[n]
            /\ p.kind = "dict" =>
                  /\ SentParamKeys = DOMAIN p.dict
                  /\ \A k \in DOMAIN p.dict : data[k] = p.dict[k]

\* a list of three values, the first two different, was sent
C16_Witness ==
    /\ IsCallOf("update_tlx_inverter_setting")
    /\ call.args.parameter.kind = "list"
    /\ Len(call.args.parameter.list) = 3
    /\ call.args.parameter.list[1] # call.args.parameter.list[2]
    /\ Len(call.sent) = 1
    /\ call.outcome.kind = "return"

AgentOfArgs(i, agent) ==
    LET base == IF client[i].agent_arg # <<>>
                THEN client[i].agent_arg ELSE DefaultAgent
    IN  IF client[i].add_random_user_id
        THEN /\ Len(agent) = Len(base) + 6
             /\ SubSeq(agent, 1, Len(base) + 1) = base \o <<" - ">>
             /\ \E n \in RandomIds : SubSeq(agent, Len(base) + 2, Len(agent)) = Format05d(n)
        ELSE agent = base

\* C18: each instance owns its session and user agent. A step that
\* constructs or uses one instance leaves the attributes and the session of
\* every other instance as they were, and the user agent of every instance,
\* whenever it is created, is the one its own constructor arguments ask for,
\* whatever the other instance was constructed with.
C18_InstancesIndependent ==
    /\ [][\A i, j \in Instances :
            (i # j /\ (client'[i] # client[i] \/ session'[i] # session[i]
                        \/ (call' # NoCall /\ call'.client = i)))
            => (client'[j] = client[j] /\ session'[j] = session[j])]_vars
    /\ [](\A i \in Instances : client[i] # NoClient =>
            /\ AgentOfArgs(i, client[i].agent_identifier)
            /\ AgentOfArgs(i, session[i].headers.UserAgent))

\* both instances exist, the first with a random id appended to its agent
\* and the second, created after it, with the defaults, and the second
\* was called
C18_Witness ==
    /\ client["api1"].add_random_user_id
    /\ client["api2"].cls = "GrowattApi"
    /\ client["api2"].agent_arg = <<>>
    /\ ~client["api2"].add_random_user_id
    /\ call # NoCall
    /\ call.client = "api2"
    /\ Len(call.sent) >= 1

(***************************************************************************)
(* Claims about the register range reader: the whole run.                  *)
(***************************************************************************)
\* the script has left the for loop, or an exception has ended it
ReaderEnded == rpc \in {"finished", "crashed"}

\* C19: the register range reader terminates for every sequence of
\* server answers: every run in which the script keeps running reaches the
\* end of the for loop (or ends with an exception).
C19_ReaderTerminates == <>ReaderEnded

\* every read request so far was answered with success
EveryReadSucceeded == last_read.answer \in {"none", "success"}

\* the register addresses of all ranges of register_ranges
RangeAddresses ==
    UNION { register_ranges[r][1] .. register_ranges[r][2] :
            r \in 1 .. Len(register_ranges) }

\* C20: if every read request succeeds, then when the reader has
\* finished, register_result holds a value for every register address of
\* every range of register_ranges, the single-register ranges included.
C20_EveryAddressRead ==
    ([]EveryReadSucceeded)
        => [](rpc = "finished" => RangeAddresses \subseteq register_result)

\* no read request is answered with anything but success or '500', and from
\* some request on none is answered with '500'
FinitelyManyTimeouts ==
    /\ [](last_read.answer \in {"none", "success", "500"})
    /\ <>[](last_read.answer # "500")

\* the end address of every range of register_ranges has a value
EveryRangeReadToItsEnd ==
    \A r \in 1 .. Len(register_ranges) :
        register_ranges[r][2] \in register_result

\* C21: if the read requests are answered with '500' only finitely
\* many times and otherwise with success, the reader eventually reaches the
\* 'finished reading registers' step with every range read up to its end
\* address.
C21_EventuallyAllRead ==
    FinitelyManyTimeouts => <>(rpc = "finished" /\ EveryRangeReadToItsEnd)

\* this step sends a read request (every request flips last_read.odd)
SendsRead == last_read'.odd # last_read.odd

\* C22: the reader never sends two read requests back to back. When a
\* read request is sent and it is not the first one, the reader has slept
\* after the request before it: 0.1 s after a success, 0.3 s after a
\* reduction of the chunk size, 30 s after a repeated timeout.
C22_SleepsBetweenReads ==
    [][(SendsRead /\ last_read # NoRead) =>
          /\ last_read.sleep > 0
          /\ last_read.answer = "success" => last_read.sleep = SleepAfterSuccess
          /\ last_read.answer = "500" =>
                last_read.sleep \in {SleepAfterReduce, SleepAfterTimeout}]_vars

\* a text of the form HH:MM: two digits, a colon, two digits
IsHHMM(text) ==
    /\ Len(text) = 5
    /\ text[3] = ":"
    /\ \A k \in {1, 2, 4, 5} : IsDigit(text[k])

\* a time field that is 'null', empty, missing, None, or a text that is not
\* two numbers of at most two digits around a colon
MalformedTime(field) ==
    \/ field \in {FAbsent, FNone, FStr(NullText), FStr(<<>>)}
    \/ /\ field.t = "str"
       /\ LET parts == Split(field.chars, ":")
          IN  \/ Len(parts) < 2
              \/ \E p \in {1, 2} :
                    LET s == Strip(parts[p])
                    IN  \/ s = <<>>
                        \/ Len(s) > 2
                        \/ \E k \in 1 .. Len(s) : ~IsDigit(s[k])

\* a mode or switch field that is 'null', missing, None or not a number
MalformedNumber(field) ==
    \/ field \in {FAbsent, FNone, FStr(NullText)}
    \/ field.t = "str" /\ ~IntOfText(field.chars).ok

\* the records of the last call: the segments of read_time_segments or the
\* periods of read_ac_charge_times and read_ac_discharge_times
ParsedRecords ==
    IF IsCallOf("read_time_segments") THEN call.outcome.value
    ELSE call.outcome.value.periods

\* the time, mode and switch fields record k of the last call was parsed
\* from
StartField(k) ==
    IF IsCallOf("read_time_segments")
    THEN call.args.fields[FieldKey("forcedTimeStart", k)]
    ELSE call.args.fields[PeriodKey(TimeTypeOf(call.method[3]), "TimeStart", k)]

StopField(k) ==
    IF IsCallOf("read_time_segments")
    THEN call.args.fields[FieldKey("forcedTimeStop", k)]
    ELSE call.args.fields[PeriodKey(TimeTypeOf(call.method[3]), "TimeStop", k)]

SwitchField(k) ==
    IF IsCallOf("read_time_segments")
    THEN call.args.fields[FieldKey("forcedStopSwitch", k)]
    ELSE call.args.fields[PeriodKey(TimeTypeOf(call.method[3]), "StopSwitch", k)]

\* C23: the time-segment parsers never raise on malformed field
\* values. A read that is given the settings returns (unless the device
\* object could not be built), and in every result, from passed or fetched
\* settings, every start_time and end_time has the form HH:MM, a malformed
\* time field yields '00:00', a malformed mode field yields batt_mode None
\* with mode_name 'Unknown', and a malformed switch field yields enabled
\* False.
C23_ParsersNeverRaise ==
    IsReadWithSettings =>
        /\ (call.args.settings_data # JNone /\ call.outcome.exc # "TypeError")
              => call.outcome.kind = "return"
        /\ call.outcome.kind = "return" =>
              \A k \in DOMAIN ParsedRecords :
                LET rec == ParsedRecords[k]
                IN  /\ IsHHMM(rec.start_time)
                    /\ IsHHMM(rec.end_time)
                    /\ MalformedTime(StartField(k)) => rec.start_time = MidnightText
                    /\ MalformedTime(StopField(k)) => rec.end_time = MidnightText
                    /\ MalformedNumber(SwitchField(k)) => ~rec.enabled
                    /\ (IsCallOf("read_time_segments")
                        /\ MalformedNumber(call.args.fields[FieldKey("timeMode", k)]))
                          => (rec.batt_mode = FNone /\ rec.mode_name = "Unknown")

====
